---- MODULE Spec2Model ----
(***************************************************************************)
(* Model of the dependency graph (package graph) and of the resolution     *)
(* factory (graph/factory.go) of repoctl's pacman library.                  *)
(*                                                                         *)
(* Go maps are modelled as TLA+ functions whose DOMAIN is the key set, Go  *)
(* slices as sequences, *Node pointers as records [id, pkg] (identifiers   *)
(* are unique per graph, so record equality is pointer equality).          *)
(***************************************************************************)
EXTENDS Integers, Sequences, FiniteSets, TLC

(***************************************************************************)
(* Bounds of the model.                                                    *)
(***************************************************************************)
\* longest seed list handed to Factory.NewGraph
MaxSeeds == 2
\* the remote-call counter is kept in CounterBits bits (a Go int wraps)
CounterBits == 2
\* most NewNode calls in a run of the graph API
MaxNodes == 3
\* most AddEdgeFromTo calls in a run of the graph API
MaxEdgeCalls == 2

(***************************************************************************)
(* The package universe.                                                   *)
(***************************************************************************)
PkgNames == {"A", "B", "C", "D"}

\* names used by the runs of the graph API
ApiNames == {"A", "B"}

\* Two dependency tables.  In the first A and B depend on each other and on
\* nothing else, and C and D both depend on B; the second is the chain
\* A -> B -> C -> D, in which A names B in both of its lists.
DepTables ==
  { [ A |-> [Depends |-> <<"B">>, MakeDepends |-> <<>>],
      B |-> [Depends |-> <<"A">>, MakeDepends |-> <<>>],
      C |-> [Depends |-> <<"A">>, MakeDepends |-> <<"B">>],
      D |-> [Depends |-> <<"B">>, MakeDepends |-> <<"B">>] ],
    [ A |-> [Depends |-> <<"B">>, MakeDepends |-> <<"B">>],
      B |-> [Depends |-> <<"C">>, MakeDepends |-> <<>>],
      C |-> [Depends |-> <<>>,    MakeDepends |-> <<"D">>],
      D |-> [Depends |-> <<>>,    MakeDepends |-> <<>>] ] }

\* where a name is available: in a sync repository, in a sync repository and
\* installed, only in AUR, or nowhere
Classes == {"sync", "installed", "aur", "none"}

VARIABLES
  \* ---- the environment ----
  table,          \* the dependency table of the package universe
  class,          \* PkgNames -> Classes
  \* ---- Factory ----
  local,          \* f.local: installed packages by name
  sync,           \* f.sync: repository packages by name
  skipInstalled,  \* f.skipInstalled
  truncate,       \* f.truncate
  noUnknown,      \* f.noUnknown
  aurCalls,       \* f.aurCalls
  \* ---- one call of Factory.NewGraph ----
  pc,             \* "idle", "loop", "returned", "failed", "panicked"; "api"
  pkgs,           \* the seed packages of the call
  lst,            \* the frontier
  lastRequest,    \* history: the name list handed to the last aur.ReadAll call
  requested,      \* history: every name ever handed to aur.ReadAll
  err,            \* the error NewGraph returns ("" is nil)
  errNames,       \* the Names of that error when it is a NotFoundError
  lastAnswer,     \* history: the error of the last aur.ReadAll call ("" is nil)
  \* ---- Graph ----
  g,              \* the graph
  fault,          \* the panic that ended the program ("" while it runs)
  created,        \* graph API runs: the nodes NewNode has returned
  edgeLog,        \* history: the <<u, v>> of every AddEdgeFromTo call that returned
  endpointsAdded, \* history: every such call was made on two nodes already added
  last            \* history: the last graph API call and its arguments

vars == <<table, class, local, sync, skipInstalled, truncate, noUnknown,
          aurCalls, pc, pkgs, lst, lastRequest, requested, err, errNames,
          lastAnswer, g, fault, created, edgeLog, endpointsAdded, last>>

factoryVars == <<table, class, local, sync, skipInstalled, truncate, noUnknown,
                 aurCalls, pkgs, lst, lastRequest, requested, err, errNames,
                 lastAnswer>>

(***************************************************************************)
(* Go maps and slices.                                                     *)
(***************************************************************************)
EmptyMap == [k \in {} |-> 0]

HasKey(m, k) == k \in DOMAIN m

Put(m, k, v) == [x \in DOMAIN m \cup {k} |-> IF x = k THEN v ELSE m[x]]

\* a read of a slice-valued map: the nil slice when the key is missing
SliceAt(m, k) == IF k \in DOMAIN m THEN m[k] ELSE <<>>

Range(s) == {s[i] : i \in 1..Len(s)}

Count(s, x) == Cardinality({i \in 1..Len(s) : s[i] = x})

(***************************************************************************)
(* Package records (pacman.AnyPackage).                                    *)
(***************************************************************************)
Pkg(name, origin, depends, makedepends) ==
  [Name |-> name, Origin |-> origin, Depends |-> depends, MakeDepends |-> makedepends]

\* the record of `name` as read from the source `origin`
PkgFrom(tbl, name, origin) ==
  Pkg(name, origin, tbl[name].Depends, tbl[name].MakeDepends)

(***************************************************************************)
(* Node, Edge.                                                             *)
(***************************************************************************)
MkNode(id, p) == [id |-> id, pkg |-> p]

PkgName(n) == n.pkg.Name

IsFromAUR(n) == n.pkg.Origin = "aur"

AllDepends(n) == n.pkg.Depends \o n.pkg.MakeDepends

NumAllDepends(n) == Len(n.pkg.Depends) + Len(n.pkg.MakeDepends)

MkEdge(u, v) == [from |-> u, to |-> v]

(***************************************************************************)
(* Graph.                                                                  *)
(***************************************************************************)
NewGraph ==
  [names |-> EmptyMap, nodes |-> <<>>, nodeIDs |-> EmptyMap,
   edgesFrom |-> EmptyMap, edgesTo |-> EmptyMap, edges |-> EmptyMap,
   nextID |-> 0]

Has(gr, n) == HasKey(gr.nodeIDs, n.id)

HasName(gr, name) == HasKey(gr.names, name)

NodeWithName(gr, name) == gr.names[name]

Nodes(gr) == gr.nodes

From(gr, v) == SliceAt(gr.edgesFrom, v.id)

To(gr, v) == SliceAt(gr.edgesTo, v.id)

HasEdgeFromTo(gr, u, v) == \E i \in 1..Len(From(gr, u)) : From(gr, u)[i] = v

HasEdgeBetween(gr, u, v) == HasEdgeFromTo(gr, u, v) \/ HasEdgeFromTo(gr, v, u)

\* g.edges[u.ID()][v.ID()]: reading a missing key yields nil
HasEdgeObject(gr, u, v) == HasKey(gr.edges, u.id) /\ HasKey(gr.edges[u.id], v.id)

EdgeOf(gr, u, v) == gr.edges[u.id][v.id]

\* NewNodeID increments the counter and returns it; NewNode wraps the package
\* NewNodeID that hands out the counter before it is incremented
NewNodeID_BeforeIncrement(gr) == gr.nextID

NewNodeID(gr) == gr.nextID + 1

NewNode(gr, p) == MkNode(NewNodeID(gr), p)

\* the graph after NewNode: only the counter moves
AfterNewNode(gr) == [gr EXCEPT !.nextID = gr.nextID + 1]

\* AddNodeFault without its check of the name
AddNodeFault_NoNameCheck(gr, n) ==
  IF HasKey(gr.nodeIDs, n.id) THEN "node id already here" ELSE ""

\* the panic AddNode raises, "" when it raises none
AddNodeFault(gr, n) ==
  IF HasName(gr, PkgName(n)) THEN "package name already in graph"
  ELSE IF Has(gr, n) THEN "node id already here"
  ELSE ""

\* AddNode that puts the node at the front of the node list
AddNode_AtFront(gr, n) ==
  IF AddNodeFault(gr, n) # "" THEN gr
  ELSE [gr EXCEPT !.names = Put(gr.names, PkgName(n), n),
                  !.nodes = <<n>> \o gr.nodes,
                  !.nodeIDs = Put(gr.nodeIDs, n.id, n),
                  !.edgesFrom = Put(gr.edgesFrom, n.id, <<>>),
                  !.edgesTo = Put(gr.edgesTo, n.id, <<>>),
                  !.edges = Put(gr.edges, n.id, EmptyMap)]

AddNode(gr, n) ==
  IF AddNodeFault(gr, n) # "" THEN gr
  ELSE [gr EXCEPT !.names = Put(gr.names, PkgName(n), n),
                  !.nodes = Append(gr.nodes, n),
                  !.nodeIDs = Put(gr.nodeIDs, n.id, n),
                  !.edgesFrom = Put(gr.edgesFrom, n.id, <<>>),
                  !.edgesTo = Put(gr.edgesTo, n.id, <<>>),
                  !.edges = Put(gr.edges, n.id, EmptyMap)]

\* g.edges[uid][vid] = ... panics when g.edges[uid] is the nil map, that is
\* when u was never added; nothing else in AddEdgeFromTo can fail
AddEdgeFault(gr, u, v) ==
  IF ~HasKey(gr.edges, u.id) THEN "assignment to entry in nil map" ELSE ""

\* AddEdgeFromTo that records a pair it already holds only once
AddEdgeFromTo_Dedup(gr, u, v) ==
  IF ~HasKey(gr.edges, u.id) \/ HasKey(gr.edges[u.id], v.id) THEN gr
  ELSE [gr EXCEPT !.edges = Put(gr.edges, u.id, Put(gr.edges[u.id], v.id, MkEdge(u, v))),
                  !.edgesFrom = Put(gr.edgesFrom, u.id, Append(SliceAt(gr.edgesFrom, u.id), u)),
                  !.edgesTo = Put(gr.edgesTo, v.id, Append(SliceAt(gr.edgesTo, v.id), v))]

AddEdgeFromTo(gr, u, v) ==
  IF AddEdgeFault(gr, u, v) # "" THEN gr
  ELSE [gr EXCEPT !.edges = Put(gr.edges, u.id, Put(gr.edges[u.id], v.id, MkEdge(u, v))),
                  !.edgesFrom = Put(gr.edgesFrom, u.id, Append(SliceAt(gr.edgesFrom, u.id), u)),
                  !.edgesTo = Put(gr.edgesTo, v.id, Append(SliceAt(gr.edgesTo, v.id), v))]

(***************************************************************************)
(* Runs of the graph API: a client calls NewNode, AddNode and              *)
(* AddEdgeFromTo in any order on one graph.  A panic ends the run.         *)
(***************************************************************************)
NoNode == MkNode(0, Pkg("", "", <<>>, <<>>))

\* what a call that computes no build order leaves in `last`
NoOrder == [order |-> <<>>, err |-> "", cycle |-> <<>>]

NoCall == [op |-> "", u |-> NoNode, v |-> NoNode, out |-> NoOrder]

(***************************************************************************)
(* The build-order extractor, Dependencies(g): a depth-first post-order    *)
(* walk along From(), started from the nodes of Nodes() in their order;    *)
(* each node is Unvisited, InProgress or Done, keyed by its identifier.    *)
(* An edge into an InProgress node is a cycle: the walk stops with an      *)
(* error that carries the nodes of the walk's stack from that node on.     *)
(***************************************************************************)
WalkStart == [progress |-> {}, done |-> {}, stack |-> <<>>, order |-> <<>>,
              err |-> "", cycle |-> <<>>]

\* the part of the stack from the node with identifier id to the top
StackFrom(stack, id) ==
  LET first == CHOOSE i \in 1..Len(stack) :
                 /\ stack[i].id = id
                 /\ \A j \in 1..(i - 1) : stack[j].id # id
  IN SubSeq(stack, first, Len(stack))

RECURSIVE Visit(_, _, _)
RECURSIVE VisitAll(_, _, _)
Visit(gr, st, n) ==
  IF st.err # "" \/ n.id \in st.done THEN st
  ELSE IF n.id \in st.progress
  THEN [st EXCEPT !.err = "cycle", !.cycle = StackFrom(st.stack, n.id)]
  ELSE LET below == VisitAll(gr, [st EXCEPT !.progress = st.progress \cup {n.id},
                                           !.stack = Append(st.stack, n)],
                             From(gr, n))
       IN IF below.err # "" THEN below
          ELSE [below EXCEPT !.progress = below.progress \ {n.id},
                             !.done = below.done \cup {n.id},
                             !.stack = SubSeq(below.stack, 1, Len(below.stack) - 1),
                             !.order = Append(below.order, n)]

VisitAll(gr, st, ns) ==
  IF ns = <<>> \/ st.err # "" THEN st
  ELSE VisitAll(gr, Visit(gr, st, Head(ns)), Tail(ns))

Dependencies(gr) ==
  LET st == VisitAll(gr, WalkStart, Nodes(gr))
  IN [order |-> IF st.err # "" THEN <<>> ELSE st.order,
      err |-> st.err,
      cycle |-> st.cycle]

ApiInit ==
  /\ table \in DepTables
  /\ class = [n \in PkgNames |-> "aur"]
  /\ local = EmptyMap
  /\ sync = EmptyMap
  /\ skipInstalled = FALSE
  /\ truncate = FALSE
  /\ noUnknown = FALSE
  /\ aurCalls = 0
  /\ pc = "api"
  /\ pkgs = <<>>
  /\ lst = <<>>
  /\ lastRequest = <<>>
  /\ requested = {}
  /\ err = ""
  /\ errNames = <<>>
  /\ lastAnswer = ""
  /\ g = NewGraph
  /\ fault = ""
  /\ created = <<>>
  /\ edgeLog = <<>>
  /\ endpointsAdded = TRUE
  /\ last = NoCall

ApiNewNode ==
  /\ pc = "api"
  /\ g.nextID < MaxNodes
  /\ \E name \in ApiNames :
       LET n == NewNode(g, PkgFrom(table, name, "aur")) IN
         /\ created' = Append(created, n)
         /\ last' = [op |-> "NewNode", u |-> n, v |-> NoNode, out |-> NoOrder]
  /\ g' = AfterNewNode(g)
  /\ UNCHANGED <<factoryVars, pc, fault, edgeLog, endpointsAdded>>

ApiAddNode ==
  /\ pc = "api"
  /\ \E i \in 1..Len(created) :
       LET n == created[i] IN
         /\ fault' = AddNodeFault(g, n)
         /\ g' = AddNode(g, n)
         /\ pc' = IF AddNodeFault(g, n) # "" THEN "panicked" ELSE pc
         /\ last' = [op |-> "AddNode", u |-> n, v |-> NoNode, out |-> NoOrder]
  /\ UNCHANGED <<factoryVars, created, edgeLog, endpointsAdded>>

ApiAddEdgeFromTo ==
  /\ pc = "api"
  /\ Len(edgeLog) < MaxEdgeCalls
  /\ \E i, j \in 1..Len(created) :
       LET u == created[i]
           v == created[j]
       IN
         /\ fault' = AddEdgeFault(g, u, v)
         /\ g' = AddEdgeFromTo(g, u, v)
         /\ pc' = IF AddEdgeFault(g, u, v) # "" THEN "panicked" ELSE pc
         /\ edgeLog' = IF AddEdgeFault(g, u, v) # "" THEN edgeLog
                       ELSE Append(edgeLog, <<u, v>>)
         /\ endpointsAdded' = (endpointsAdded /\ Has(g, u) /\ Has(g, v))
         /\ last' = [op |-> "AddEdgeFromTo", u |-> u, v |-> v, out |-> NoOrder]
  /\ UNCHANGED <<factoryVars, created>>

\* the client asks for the build order of the graph as it stands
ApiDependencies ==
  /\ pc = "api"
  /\ last.op # "Dependencies"
  /\ last' = [op |-> "Dependencies", u |-> NoNode, v |-> NoNode,
              out |-> Dependencies(g)]
  /\ UNCHANGED <<factoryVars, pc, g, fault, created, edgeLog, endpointsAdded>>

ApiNext == ApiNewNode \/ ApiAddNode \/ ApiAddEdgeFromTo \/ ApiDependencies

GraphSpec == ApiInit /\ [][ApiNext]_vars

(***************************************************************************)
(* Factory.                                                                *)
(***************************************************************************)
\* every sequence over S of length at most n
SeqsUpTo(S, n) == UNION {[1..k -> S] : k \in 0..n}

\* the default dependency selector installed by NewFactory
DepFunc(n) == n.pkg.Depends \o n.pkg.MakeDepends

\* NewFactory: the options are off, the maps are read from the databases
Init ==
  /\ table \in DepTables
  /\ class \in [PkgNames -> Classes]
  /\ local = [n \in {x \in PkgNames : class[x] = "installed"} |-> PkgFrom(table, n, "local")]
  /\ sync = [n \in {x \in PkgNames : class[x] \in {"sync", "installed"}} |-> PkgFrom(table, n, "sync")]
  /\ skipInstalled = FALSE
  /\ truncate = FALSE
  /\ noUnknown = FALSE
  /\ aurCalls = 0
  /\ pc = "idle"
  /\ pkgs = <<>>
  /\ lst = <<>>
  /\ lastRequest = <<>>
  /\ requested = {}
  /\ err = ""
  /\ errNames = <<>>
  /\ lastAnswer = ""
  /\ g = NewGraph
  /\ fault = ""
  /\ created = <<>>
  /\ edgeLog = <<>>
  /\ endpointsAdded = TRUE
  /\ last = NoCall

callVars == <<pc, pkgs, lst, lastRequest, requested, err, errNames, lastAnswer,
              g, fault>>

SetSkipInstalled ==
  /\ pc = "idle"
  /\ \E yes \in BOOLEAN : skipInstalled' = yes
  /\ UNCHANGED <<table, class, local, sync, truncate, noUnknown, aurCalls,
                 callVars, created, edgeLog, endpointsAdded, last>>

SetTruncate ==
  /\ pc = "idle"
  /\ \E yes \in BOOLEAN : truncate' = yes
  /\ UNCHANGED <<table, class, local, sync, skipInstalled, noUnknown, aurCalls,
                 callVars, created, edgeLog, endpointsAdded, last>>

SetNoUnknown ==
  /\ pc = "idle"
  /\ \E yes \in BOOLEAN : noUnknown' = yes
  /\ UNCHANGED <<table, class, local, sync, skipInstalled, truncate, aurCalls,
                 callVars, created, edgeLog, endpointsAdded, last>>

NumRequestsAUR == aurCalls

\* ---- NewGraph, lines 125-132: the seeds become nodes and the first frontier
RECURSIVE AddSeeds(_, _)
AddSeeds(s, ps) ==
  IF ps = <<>> \/ s.fault # "" THEN s
  ELSE LET v == NewNode(s.g, Head(ps))
           g1 == AfterNewNode(s.g)
       IN AddSeeds([g |-> AddNode(g1, v),
                    lst |-> Append(s.lst, v),
                    fault |-> AddNodeFault(g1, v)], Tail(ps))

\* ---- NewGraph, line 135: the condition under which the loop body runs
LoopCond(frontier) == Len(frontier) = 0

\* ---- NewGraph, lines 141-172: one dependency name d of the frontier node v
ScanDep(s, v, d) ==
  IF HasName(s.g, d)
  THEN [s EXCEPT !.g = AddEdgeFromTo(s.g, v, NodeWithName(s.g, d)),
                 !.fault = AddEdgeFault(s.g, v, NodeWithName(s.g, d))]
  ELSE IF skipInstalled /\ HasKey(local, d)
  THEN s
  ELSE IF HasKey(sync, d)
  THEN LET u == NewNode(s.g, sync[d])
           g1 == AfterNewNode(s.g)
       IN [s EXCEPT !.new = IF ~truncate THEN Append(s.new, u) ELSE s.new,
                    !.g = AddEdgeFromTo(g1, v, u),
                    !.fault = AddEdgeFault(g1, v, u)]
  ELSE [s EXCEPT !.unavailable = s.unavailable \cup {d},
                 !.pending = Put(s.pending, d, Append(SliceAt(s.pending, d), v))]

RECURSIVE ScanDeps(_, _, _)
ScanDeps(s, v, ds) ==
  IF ds = <<>> \/ s.fault # "" THEN s
  ELSE ScanDeps(ScanDep(s, v, Head(ds)), v, Tail(ds))

RECURSIVE ScanFrontier(_, _)
ScanFrontier(s, frontier) ==
  IF frontier = <<>> \/ s.fault # "" THEN s
  ELSE ScanFrontier(ScanDeps(s, Head(frontier), DepFunc(Head(frontier))), Tail(frontier))

\* the state of one layer before its scan
LayerStart(gr) ==
  [g |-> gr, new |-> <<>>, unavailable |-> {}, pending |-> EmptyMap, fault |-> ""]

\* ---- NewGraph, lines 175-182: addFetchedPkg
RECURSIVE AddEdgesTo(_, _, _)
AddEdgesTo(s, vs, u) ==
  IF vs = <<>> \/ s.fault # "" THEN s
  ELSE AddEdgesTo([s EXCEPT !.g = AddEdgeFromTo(s.g, Head(vs), u),
                            !.fault = AddEdgeFault(s.g, Head(vs), u)], Tail(vs), u)

\* addFetchedPkg that leaves a placeholder package out of the next frontier
AddFetchedPkg_PlaceholderNotQueued(s, p) ==
  LET u == NewNode(s.g, p)
      g1 == AfterNewNode(s.g)
      s1 == [s EXCEPT !.new = IF p.Origin = "unknown" THEN s.new ELSE Append(s.new, u),
                      !.g = AddNode(g1, u),
                      !.fault = AddNodeFault(g1, u)]
  IN AddEdgesTo(s1, SliceAt(s.pending, PkgName(u)), u)

AddFetchedPkg(s, p) ==
  LET u == NewNode(s.g, p)
      g1 == AfterNewNode(s.g)
      s1 == [s EXCEPT !.new = Append(s.new, u),
                      !.g = AddNode(g1, u),
                      !.fault = AddNodeFault(g1, u)]
  IN AddEdgesTo(s1, SliceAt(s.pending, PkgName(u)), u)

RECURSIVE AddFetchedPkgs(_, _)
AddFetchedPkgs(s, ps) ==
  IF ps = <<>> \/ s.fault # "" THEN s
  ELSE AddFetchedPkgs(AddFetchedPkg(s, Head(ps)), Tail(ps))

\* ---- NewGraph, lines 185-188: the request list.  make([]string, n) is a
\* slice of n empty strings, and the names are appended behind them; the
\* names come in the order the map iteration yields them
FromAUR(order) == [i \in 1..Len(order) |-> ""] \o order

\* every order in which a Go map iteration can yield the set S
Orders(S) == {o \in [1..Cardinality(S) -> S] : Range(o) = S}

\* ---- aur.ReadAll: the records of the requested names AUR has, and a
\* NotFoundError naming the requested names it has not; or a transport error
RECURSIVE Distinct(_)
Distinct(names) ==
  IF names = <<>> THEN <<>>
  ELSE LET rest == Distinct(SubSeq(names, 1, Len(names) - 1))
           x == names[Len(names)]
       IN IF x \in Range(rest) THEN rest ELSE Append(rest, x)

InAUR(name) == name \in PkgNames /\ class[name] = "aur"

RECURSIVE FoundIn(_)
FoundIn(names) ==
  IF names = <<>> THEN <<>>
  ELSE IF InAUR(Head(names))
       THEN <<PkgFrom(table, Head(names), "aur")>> \o FoundIn(Tail(names))
       ELSE FoundIn(Tail(names))

RECURSIVE MissingIn(_)
MissingIn(names) ==
  IF names = <<>> THEN <<>>
  ELSE IF InAUR(Head(names))
       THEN MissingIn(Tail(names))
       ELSE <<Head(names)>> \o MissingIn(Tail(names))

ReadAll(names) ==
  { [pkgs |-> FoundIn(Distinct(names)),
     err |-> IF MissingIn(Distinct(names)) = <<>> THEN "" ELSE "not found",
     names |-> MissingIn(Distinct(names))],
    [pkgs |-> <<>>, err |-> "transport", names |-> <<>>] }

\* ---- NewGraph, lines 197-204: the placeholders of the names not found
Unknowns(names) ==
  [i \in 1..Len(names) |-> Pkg(names[i], "unknown", <<>>, <<>>)]

\* AfterReadAll without the test that the error is a NotFoundError
AfterReadAll_AnyErrorTolerated(s, r) ==
  IF r.err # "" /\ noUnknown
  THEN [s |-> s, err |-> r.err]
  ELSE LET s1 == IF r.err # "" THEN AddFetchedPkgs(s, Unknowns(r.names)) ELSE s
       IN [s |-> AddFetchedPkgs(s1, r.pkgs), err |-> ""]

\* ---- NewGraph, lines 194-213: what the layer does with the answer
\* returns [s, err]: err # "" is "return nil, err"
AfterReadAll(s, r) ==
  IF r.err # "" /\ ~(~noUnknown /\ r.err = "not found")
  THEN [s |-> s, err |-> r.err]
  ELSE LET s1 == IF r.err # "" THEN AddFetchedPkgs(s, Unknowns(r.names)) ELSE s
       IN [s |-> AddFetchedPkgs(s1, r.pkgs), err |-> ""]

\* ---- NewGraph(pkgs), lines 124-132
NewGraphCall ==
  /\ pc = "idle"
  /\ \E seeds \in SeqsUpTo(PkgNames, MaxSeeds) :
       LET ps == [i \in 1..Len(seeds) |-> PkgFrom(table, seeds[i], "aur")]
           s == AddSeeds([g |-> NewGraph, lst |-> <<>>, fault |-> ""], ps)
       IN /\ pkgs' = ps
          /\ g' = s.g
          /\ lst' = s.lst
          /\ fault' = s.fault
          /\ pc' = IF s.fault # "" THEN "panicked" ELSE "loop"
  /\ UNCHANGED <<table, class, local, sync, skipInstalled, truncate, noUnknown,
                 aurCalls, lastRequest, requested, err, errNames, lastAnswer,
                 created, edgeLog, endpointsAdded, last>>

\* ---- one pass of the loop body, lines 136-213
Layer ==
  /\ pc = "loop"
  /\ LoopCond(lst)
  /\ LET s == ScanFrontier(LayerStart(g), lst) IN
       IF s.fault # ""
       THEN /\ pc' = "panicked"
            /\ fault' = s.fault
            /\ g' = s.g
            /\ UNCHANGED <<aurCalls, lst, lastRequest, requested, err, errNames,
                           lastAnswer>>
       ELSE \E order \in Orders(s.unavailable) :
            \E r \in ReadAll(FromAUR(order)) :
              LET a == AfterReadAll(s, r) IN
                /\ aurCalls' = (aurCalls + 1) % (2 ^ CounterBits)
                /\ lastRequest' = FromAUR(order)
                /\ requested' = requested \cup Range(FromAUR(order))
                /\ g' = a.s.g
                /\ fault' = a.s.fault
                /\ lastAnswer' = r.err
                /\ err' = a.err
                /\ errNames' = IF a.err # "" THEN r.names ELSE errNames
                /\ lst' = IF a.err # "" \/ a.s.fault # "" THEN lst ELSE a.s.new
                /\ pc' = IF a.s.fault # "" THEN "panicked"
                         ELSE IF a.err # "" THEN "failed"
                         ELSE "loop"
  /\ UNCHANGED <<table, class, local, sync, skipInstalled, truncate, noUnknown,
                 pkgs, created, edgeLog, endpointsAdded, last>>

\* ---- the loop ends, line 216: return g, nil
Return ==
  /\ pc = "loop"
  /\ ~LoopCond(lst)
  /\ pc' = "returned"
  /\ UNCHANGED <<table, class, local, sync, skipInstalled, truncate, noUnknown,
                 aurCalls, pkgs, lst, lastRequest, requested, err, errNames,
                 lastAnswer, g, fault, created, edgeLog, endpointsAdded, last>>

Next ==
  \/ SetSkipInstalled
  \/ SetTruncate
  \/ SetNoUnknown
  \/ NewGraphCall
  \/ Layer
  \/ Return

Spec == Init /\ [][Next]_vars

\* the loop is a sequential program: it keeps running while it can
FairSpec == Spec /\ WF_vars(Layer) /\ WF_vars(Return)

(***************************************************************************)
(* The loop body by itself, lines 137-213, as a function of its frontier:  *)
(* BodySpec starts inside the body with the seeds of a call as the         *)
(* frontier (what lines 125-132 produce for a non-empty seed list), with   *)
(* unknown packages tolerated or forbidden, and runs the body once, up to  *)
(* `lst = new`.                                                            *)
(***************************************************************************)
BodyInit ==
  /\ table \in DepTables
  /\ class \in [PkgNames -> Classes]
  /\ local = [n \in {x \in PkgNames : class[x] = "installed"} |-> PkgFrom(table, n, "local")]
  /\ sync = [n \in {x \in PkgNames : class[x] \in {"sync", "installed"}} |-> PkgFrom(table, n, "sync")]
  /\ skipInstalled = FALSE
  /\ truncate = FALSE
  /\ noUnknown \in BOOLEAN
  /\ aurCalls = 0
  /\ pc = "body"
  /\ \E seeds \in SeqsUpTo(PkgNames, MaxSeeds) :
       LET ps == [i \in 1..Len(seeds) |-> PkgFrom(table, seeds[i], "aur")]
           s == AddSeeds([g |-> NewGraph, lst |-> <<>>, fault |-> ""], ps)
       IN /\ seeds # <<>>
          /\ s.fault = ""
          /\ pkgs = ps
          /\ g = s.g
          /\ lst = s.lst
  /\ lastRequest = <<>>
  /\ requested = {}
  /\ err = ""
  /\ errNames = <<>>
  /\ lastAnswer = ""
  /\ fault = ""
  /\ created = <<>>
  /\ edgeLog = <<>>
  /\ endpointsAdded = TRUE
  /\ last = NoCall

\* ---- the loop body, lines 137-213, run on the frontier lst
LayerBody ==
  /\ pc = "body"
  /\ LET s == ScanFrontier(LayerStart(g), lst) IN
       IF s.fault # ""
       THEN /\ pc' = "panicked"
            /\ fault' = s.fault
            /\ g' = s.g
            /\ UNCHANGED <<aurCalls, lst, lastRequest, requested, err, errNames,
                           lastAnswer>>
       ELSE \E order \in Orders(s.unavailable) :
            \E r \in ReadAll(FromAUR(order)) :
              LET a == AfterReadAll(s, r) IN
                /\ aurCalls' = (aurCalls + 1) % (2 ^ CounterBits)
                /\ lastRequest' = FromAUR(order)
                /\ requested' = requested \cup Range(FromAUR(order))
                /\ g' = a.s.g
                /\ fault' = a.s.fault
                /\ lastAnswer' = r.err
                /\ err' = a.err
                /\ errNames' = IF a.err # "" THEN r.names ELSE errNames
                /\ lst' = IF a.err # "" \/ a.s.fault # "" THEN lst ELSE a.s.new
                /\ pc' = IF a.s.fault # "" THEN "panicked"
                         ELSE IF a.err # "" THEN "failed"
                         ELSE "layered"
  /\ UNCHANGED <<table, class, local, sync, skipInstalled, truncate, noUnknown,
                 pkgs, created, edgeLog, endpointsAdded, last>>

BodySpec == BodyInit /\ [][LayerBody]_vars

(***************************************************************************)
(* The resolution the specification describes, used to state the claims:   *)
(* the names that become nodes when the frontier expansion of section 4.2  *)
(* is run from the seeds.                                                  *)
(***************************************************************************)
SeedNames == {pkgs[i].Name : i \in 1..Len(pkgs)}

DepsOf(x) == Range(table[x].Depends) \cup Range(table[x].MakeDepends)

\* d is left out of the graph: installed, skip-installed on, and not a seed
Skipped(d) == skipInstalled /\ HasKey(local, d) /\ d \notin SeedNames

\* the dependencies of x are expanded: x is a seed, a sync package that is
\* not truncated, or a package fetched from AUR
Expanded(x) ==
  \/ x \in SeedNames
  \/ HasKey(sync, x) /\ ~truncate
  \/ ~HasKey(sync, x) /\ InAUR(x)

RECURSIVE Closure(_)
Closure(S) ==
  LET more == S \cup {d \in PkgNames :
                        \E x \in S : Expanded(x) /\ d \in DepsOf(x) /\ ~Skipped(d)}
  IN IF more = S THEN S ELSE Closure(more)

Resolution == Closure(SeedNames)

Returned == pc = "returned"

DefaultOptions == ~skipInstalled /\ ~truncate /\ ~noUnknown

\* an edge object v -> the node named d is recorded
EdgeToName(gr, v, d) == HasName(gr, d) /\ HasEdgeObject(gr, v, NodeWithName(gr, d))

(***************************************************************************)
(* Claims.                                                                 *)
(***************************************************************************)

\* C1: with all three options off, a graph returned by NewGraph contains
\* every seed, and for every node v and every name d its dependency selector
\* lists it contains a node named d and an edge v -> d.
C1_ClosedUnderDependencies ==
  (Returned /\ DefaultOptions) =>
    /\ \A i \in 1..Len(pkgs) : HasName(g, pkgs[i].Name)
    /\ \A i \in 1..Len(Nodes(g)) :
         \A k \in 1..Len(DepFunc(Nodes(g)[i])) :
           EdgeToName(g, Nodes(g)[i], DepFunc(Nodes(g)[i])[k])

\* C2: once NewGraph has entered its frontier loop it eventually leaves it,
\* by returning a graph or an error (or by a panic), whatever the seeds.
C2_Terminates == (pc = "loop") ~> (pc \in {"returned", "failed", "panicked"})

\* C3: for the seed A, where A depends exactly on B and B exactly on A and B
\* is available from sync or AUR, the returned graph has exactly the nodes A
\* and B and the edges A -> B and B -> A.
C3_MutualDependency ==
  ( /\ Returned
    /\ DefaultOptions
    /\ SeedNames = {"A"}
    /\ Len(pkgs) = 1
    /\ DepsOf("A") = {"B"}
    /\ DepsOf("B") = {"A"}
    /\ class["B"] # "none" ) =>
    /\ DOMAIN g.names = {"A", "B"}
    /\ Len(Nodes(g)) = 2
    /\ EdgeToName(g, NodeWithName(g, "A"), "B")
    /\ EdgeToName(g, NodeWithName(g, "B"), "A")

\* the step is a call of AddNode / AddEdgeFromTo (every call sets `last`)
IsAddNodeStep == last'.op = "AddNode"

IsAddEdgeStep == last'.op = "AddEdgeFromTo"

\* no two nodes of Nodes() share a name, and names holds exactly one entry per
\* node of Nodes(), filed under the node's own name
NamesUnique ==
  /\ \A i, j \in 1..Len(Nodes(g)) :
       PkgName(Nodes(g)[i]) = PkgName(Nodes(g)[j]) => i = j
  /\ DOMAIN g.names = {PkgName(n) : n \in Range(Nodes(g))}
  /\ \A name \in DOMAIN g.names :
       /\ NodeWithName(g, name) \in Range(Nodes(g))
       /\ PkgName(NodeWithName(g, name)) = name

\* C4: after any sequence of AddNode calls no two nodes share a name and
\* names maps each name to exactly one node of Nodes(); an AddNode call with
\* a name that is already present panics and leaves the graph unchanged.
C4_NameUniqueness ==
  /\ []NamesUnique
  /\ [][(IsAddNodeStep /\ HasName(g, PkgName(last'.u))) =>
          (fault' = "package name already in graph" /\ g' = g)]_vars

\* an AddNode call for a name that was present has been rejected, and a
\* node of that name is in the graph
C4_Witness ==
  /\ last.op = "AddNode"
  /\ fault = "package name already in graph"
  /\ HasName(g, PkgName(last.u))
  /\ NodeWithName(g, PkgName(last.u)) # last.u

\* every edge object of the graph
EdgeObjects(gr) ==
  UNION {{gr.edges[i][j] : j \in DOMAIN gr.edges[i]} : i \in DOMAIN gr.edges}

\* n was inserted with AddNode
Inserted(gr, n) ==
  /\ Has(gr, n)
  /\ HasName(gr, PkgName(n))
  /\ n \in Range(Nodes(gr))

\* C5: while no call has faulted, both endpoints of every recorded edge are
\* nodes that were inserted with AddNode (an AddEdgeFromTo call with an
\* endpoint that was never added faults instead of recording the edge).
C5_EdgeEndpointsInserted ==
  fault = "" =>
    \A e \in EdgeObjects(g) : Inserted(g, e.from) /\ Inserted(g, e.to)

\* C6: while AddEdgeFromTo is only called on nodes already added: after
\* AddEdgeFromTo(u, v), HasEdgeFromTo(u, v) is true, From(u) contains v and
\* To(v) contains u; and HasEdgeFromTo(x, y) is true exactly for the pairs
\* AddEdgeFromTo has been called with.
C6_EdgeQueries ==
  (fault = "" /\ endpointsAdded) =>
    /\ last.op = "AddEdgeFromTo" =>
         /\ HasEdgeFromTo(g, last.u, last.v)
         /\ last.v \in Range(From(g, last.u))
         /\ last.u \in Range(To(g, last.v))
    /\ \A x, y \in Range(created) :
         HasEdgeFromTo(g, x, y) <=> <<x, y>> \in Range(edgeLog)

\* the adjacency lists of the nodes other than u (successors) and v
\* (predecessors) are the same in gr and gr2
OtherAdjacencySame(gr, gr2, u, v) ==
  /\ \A i \in (DOMAIN gr.edgesFrom \cup DOMAIN gr2.edgesFrom) \ {u.id} :
       SliceAt(gr2.edgesFrom, i) = SliceAt(gr.edgesFrom, i)
  /\ \A i \in (DOMAIN gr.edgesTo \cup DOMAIN gr2.edgesTo) \ {v.id} :
       SliceAt(gr2.edgesTo, i) = SliceAt(gr.edgesTo, i)

\* C7 as stated: a second AddEdgeFromTo(u, v) leaves the graph in the state
\* the first call left it in.
C7_Idempotent ==
  [][(IsAddEdgeStep /\ fault' = "" /\ <<last'.u, last'.v>> \in Range(edgeLog)) =>
       g' = g]_vars

\* C7: a repeated AddEdgeFromTo(u, v) leaves exactly one edge object for the
\* pair (u, v) and changes no edge object, but it appends one more entry to
\* the successor list of u and one more to the predecessor list of v.
C7_OneEdgeObjectListsGrow ==
  [][(IsAddEdgeStep /\ fault' = "" /\ <<last'.u, last'.v>> \in Range(edgeLog)) =>
       /\ g'.edges = g.edges
       /\ EdgeOf(g', last'.u, last'.v) = MkEdge(last'.u, last'.v)
       /\ Len(From(g', last'.u)) = Len(From(g, last'.u)) + 1
       /\ Len(To(g', last'.v)) = Len(To(g, last'.v)) + 1
       /\ OtherAdjacencySame(g, g', last'.u, last'.v)
       /\ Nodes(g') = Nodes(g)]_vars

\* AddEdgeFromTo has returned twice for the same pair of distinct nodes
C7_Witness ==
  /\ last.op = "AddEdgeFromTo"
  /\ fault = ""
  /\ last.u # last.v
  /\ Count(edgeLog, <<last.u, last.v>>) = 2
  /\ DOMAIN g.edges[last.u.id] = {last.v.id}

\* the distinct dependency names of the seeds that are neither in the graph,
\* nor skipped as installed, nor in the sync map: the K names of the layer
\* whose frontier is the seeds
SeedLayerUnresolved ==
  {d \in UNION {DepsOf(x) : x \in SeedNames} :
     /\ d \notin SeedNames
     /\ ~(skipInstalled /\ HasKey(local, d))
     /\ ~HasKey(sync, d)}

NoDuplicates(s) == \A i, j \in 1..Len(s) : s[i] = s[j] => i = j

\* C8: the layer whose frontier is the seeds has issued one lookup, for
\* exactly its K distinct unresolved names: once NewGraph has returned, every
\* one of these names has been handed to the remote source, and no request
\* list held a duplicate or an entry that is not such a name.
C8_OneLookupPerLayer ==
  (Returned /\ SeedLayerUnresolved # {}) =>
    /\ SeedLayerUnresolved \subseteq requested
    /\ NoDuplicates(lastRequest)
    /\ requested \subseteq PkgNames

\* C9: with skip-installed on, for every package X of the resolution and
\* every dependency Y of X that is installed and is not itself a node for
\* another reason (a seed), the returned graph has a node for X, no node
\* named Y and no edge X -> Y, and Y was never handed to the remote source.
C9_SkipInstalled ==
  (Returned /\ skipInstalled) =>
    \A x \in Resolution : \A y \in DepsOf(x) :
      (Expanded(x) /\ HasKey(local, y) /\ y \notin SeedNames) =>
        /\ HasName(g, x)
        /\ ~HasName(g, y)
        /\ y \notin requested
        /\ \A e \in EdgeObjects(g) :
             ~(PkgName(e.from) = x /\ PkgName(e.to) = y)

\* C10: with truncate on, if X is in the graph and depends on Y, Y is in the
\* sync map, Y depends on Z, and Z is available only from AUR and is not
\* otherwise required, then the returned graph has the registered nodes X
\* and Y and the edge X -> Y, has no node named Z, and Z was never handed to
\* the remote source.
C10_Truncate ==
  (Returned /\ truncate) =>
    \A x \in SeedNames : \A y \in DepsOf(x) : \A z \in DepsOf(y) :
      ( /\ HasKey(sync, y)
        /\ ~Skipped(y)
        /\ y \notin SeedNames
        /\ class[z] = "aur"
        /\ z \notin Resolution ) =>
        /\ HasName(g, x)
        /\ HasName(g, y)
        /\ NodeWithName(g, y) \in Range(Nodes(g))
        /\ EdgeToName(g, NodeWithName(g, x), y)
        /\ ~HasName(g, z)
        /\ z \notin requested

\* the names of the resolution that no source has: not installed, not in a
\* sync repository, not in AUR (a seed is handed in by the caller)
Ghosts == {d \in Resolution \ SeedNames : class[d] = "none"}

\* the nodes of Nodes() named d
NodesNamed(gr, d) == {i \in 1..Len(Nodes(gr)) : PkgName(Nodes(gr)[i]) = d}

\* NewGraph has come back to its caller, with a graph or with an error
Finished == pc \in {"returned", "failed"}

\* C11: with forbid-unknown off, the returned graph has exactly one node for
\* every name no source has, of origin unknown and with empty dependency
\* lists, and an edge to it from every node whose dependency list names it.
C11_UnknownPlaceholder ==
  (Returned /\ ~noUnknown) =>
    \A d \in Ghosts :
      /\ HasName(g, d)
      /\ Cardinality(NodesNamed(g, d)) = 1
      /\ NodeWithName(g, d).pkg = Pkg(d, "unknown", <<>>, <<>>)
      /\ \A i \in 1..Len(Nodes(g)) :
           d \in Range(DepFunc(Nodes(g)[i])) => EdgeToName(g, Nodes(g)[i], d)

\* C12: with forbid-unknown on, when the resolution needs a name no source
\* has, NewGraph comes back with a not-found error that names such a name
\* and with no graph, and no placeholder node was made.
C12_ForbidUnknown ==
  (Finished /\ noUnknown /\ lastAnswer # "transport" /\ Ghosts # {}) =>
    /\ pc = "failed"
    /\ err = "not found"
    /\ Ghosts \cap Range(errNames) # {}
    /\ \A i \in 1..Len(Nodes(g)) : Nodes(g)[i].pkg.Origin # "unknown"

\* C13: a lookup that fails with an error other than not-found makes NewGraph
\* return that error and no graph, whatever forbid-unknown is, and nothing
\* runs after that: no layer, no lookup, no retry.
C13_TransportAborts ==
  /\ [](lastAnswer = "transport" => (pc = "failed" /\ err = "transport"))
  /\ [][pc # "failed"]_vars

\* a lookup has failed in transport with forbid-unknown off, and NewGraph
\* has returned the error
C13_Witness ==
  /\ pc = "failed"
  /\ err = "transport"
  /\ lastAnswer = "transport"
  /\ ~noUnknown
  /\ NumRequestsAUR = 1

\* C14: with forbid-unknown on, the error NewGraph returns names every name
\* of the resolution that no source has, those of later layers included.
C14_ErrorNamesAllUnresolved ==
  (Finished /\ noUnknown /\ lastAnswer # "transport" /\ Ghosts # {}) =>
    /\ pc = "failed"
    /\ Ghosts \subseteq Range(errNames)

\* the pairs <<u, v>> of the recorded edges u -> v
EdgePairs(gr) == {<<e.from, e.to>> : e \in EdgeObjects(gr)}

\* the nodes reachable from the nodes of S along one or more recorded edges
RECURSIVE ReachFrom(_, _)
ReachFrom(gr, S) ==
  LET more == S \cup {p[2] : p \in {q \in EdgePairs(gr) : q[1] \in S}}
  IN IF more = S THEN S ELSE ReachFrom(gr, more)

Successors(gr, n) == {p[2] : p \in {q \in EdgePairs(gr) : q[1] = n}}

Acyclic(gr) ==
  \A p \in EdgePairs(gr) : p[1] \notin ReachFrom(gr, Successors(gr, p[1]))

\* the places of the node n in the sequence s
Places(s, n) == {i \in 1..Len(s) : s[i] = n}

\* the build order was asked of a graph built within the contract of the API
OrderAsked == last.op = "Dependencies" /\ fault = "" /\ endpointsAdded

\* C15: for an acyclic graph the build order holds every node of the graph
\* exactly once, and the dependency v before the dependent u for every edge
\* u -> v.
C15_BuildOrder ==
  (OrderAsked /\ Acyclic(g)) =>
    /\ last.out.err = ""
    /\ Range(last.out.order) = Range(Nodes(g))
    /\ \A n \in Range(Nodes(g)) : Cardinality(Places(last.out.order, n)) = 1
    /\ \A p \in EdgePairs(g) :
         \A i \in Places(last.out.order, p[1]) :
           \A j \in Places(last.out.order, p[2]) : j < i

\* C16: for a graph with a dependency cycle the build order is a cycle
\* error and no ordering, and the error names the packages of a cycle of the
\* graph: each named node has an edge to the next, the last to the first.
C16_CycleError ==
  (OrderAsked /\ ~Acyclic(g)) =>
    /\ last.out.err = "cycle"
    /\ last.out.order = <<>>
    /\ Len(last.out.cycle) > 0
    /\ \A i \in 1..Len(last.out.cycle) :
         <<last.out.cycle[i],
           last.out.cycle[IF i = Len(last.out.cycle) THEN 1 ELSE i + 1]>>
           \in EdgePairs(g)

\* the nodes named d that the graph holds, in Nodes() or as the head of an edge
NodesFor(gr, d) ==
  {Nodes(gr)[i] : i \in NodesNamed(gr, d)}
    \cup {e.to : e \in {f \in EdgeObjects(gr) : PkgName(f.to) = d}}

\* the names of the resolution whose expansion meets the dependency d
Dependents(d) == {x \in Resolution : Expanded(x) /\ class[x] # "none" /\ d \in DepsOf(x)}

\* C17: when two or more expanded packages of one NewGraph call depend on the
\* same name d that sync or AUR provides, the returned graph holds exactly
\* one node for d (one identifier), and each of them has an edge to it.
C17_OneNodePerName ==
  (Returned /\ DefaultOptions) =>
    \A d \in PkgNames :
      (class[d] # "none" /\ Cardinality(Dependents(d)) >= 2) =>
        /\ Cardinality({n.id : n \in NodesFor(g, d)}) = 1
        /\ \A x \in Dependents(d) :
             HasName(g, x) /\ EdgeToName(g, NodeWithName(g, x), d)

\* the loop body has run to its end, line 213
Layered == pc = "layered"

\* the placeholder nodes of the graph
Placeholders(gr) == {n \in Range(Nodes(gr)) : n.pkg.Origin = "unknown"}

\* the lookup of the layer found no package at all
OnlyNotFound == lastAnswer = "not found" /\ FoundIn(Distinct(lastRequest)) = <<>>

\* the scan of the frontier queued no sync package: every dependency of the
\* frontier is a node already or is not in the sync database
ScanQueuesNothing ==
  \A i \in 1..Len(pkgs) :
    \A d \in DepsOf(pkgs[i].Name) : d \in SeedNames \/ ~HasKey(sync, d)

NoEdgeFrom(gr, n) == \A e \in EdgeObjects(gr) : e.from # n

IsNewNodeStep == last'.op = "NewNode"

\* C19: the k-th node that NewNode returns has the identifier k, no two nodes
\* created by the graph share an identifier, the counter stands at the number
\* of nodes created, and a NewNode call inserts nothing: Nodes(), HasName and
\* Has of every created node are as before, and the new node is not in the
\* graph.
C19_MonotoneIdentifiers ==
  /\ [](pc = "api" =>
          /\ \A k \in 1..Len(created) : created[k].id = k
          /\ \A i, j \in 1..Len(created) :
               created[i].id = created[j].id => i = j
          /\ g.nextID = Len(created))
  /\ [][(pc = "api" /\ IsNewNodeStep) =>
          /\ Nodes(g') = Nodes(g)
          /\ \A name \in PkgNames : HasName(g', name) = HasName(g, name)
          /\ \A k \in 1..Len(created) : Has(g', created[k]) = Has(g, created[k])
          /\ ~Has(g', last'.u)
          /\ last'.u \notin Range(Nodes(g'))]_vars

C19_Witness ==
  /\ pc = "api"
  /\ last.op = "NewNode"
  /\ last.u.id = 2
  /\ Len(created) = 2
  /\ Len(Nodes(g)) = 1
  /\ HasName(g, PkgName(last.u))
  /\ ~Has(g, last.u)

IsPrefix(s, t) == Len(s) <= Len(t) /\ SubSeq(t, 1, Len(s)) = s

====
